---- MODULE Spec2Model ----
(***************************************************************************)
(* Model of the CheckpointManager of the checkpoints extension (the        *)
(* incremental engine listed in src/PUBLISHING.md, lines 328-808).         *)
(*                                                                         *)
(* A directory tree is a function from Paths to a content number, 0 for a  *)
(* path that is not there.  A path is the tuple of its components, so that *)
(* the exclusion by base name and the top-level clear of a restore can     *)
(* look at the components.  File names hold no separator characters, so    *)
(* the slash-normalised key of a scan and the system path are the same     *)
(* tuple.  Every fs call succeeds: no I/O error is injected here.          *)
(***************************************************************************)
EXTENDS Integers, Sequences, FiniteSets, TLC

\* ---------------------------------------------------------------- bounds
\* manager calls and workspace edits explored by Spec
MaxOps == 4

\* seconds that the clock may advance
MaxTime == 1

\* ------------------------------------------------------ program constants
IncrementalThreshold == 100

\* The path <<"gen", "*">> stands for a directory of BulkCount files that
\* are written and removed together; with it the number of changed files
\* reaches the threshold.
BulkCount == IncrementalThreshold

BulkPath == <<"gen", "*">>

Paths ==
  { <<".git", "HEAD">>, <<".vscode", "settings.json">>, <<"a.txt">>, BulkPath,
    <<"node_modules", "m.js">> }

\* the order in which readdirSync lists the entries
PathOrder ==
  << <<".git", "HEAD">>, <<".vscode", "settings.json">>, <<"a.txt">>, BulkPath,
     <<"node_modules", "m.js">> >>

Weight(p) == IF p = BulkPath THEN BulkCount ELSE 1

\* a tree maps a path to 0 (no such file) or to one of two contents:
\* content 1 is the empty file, content 2 has one byte
Trees == [Paths -> {0, 1, 2}]

EmptyTree == [p \in Paths |-> 0]

\* ------------------------------------------------------------------ names
\* a name is <<kind, n>>: the names s1, s2, s3 that the user types, and
\* auto_backup_<timestamp>
UserNames == {<<"s", 1>>, <<"s", 2>>, <<"s", 3>>}

Timestamps == 0 .. MaxTime

BackupNames == {"auto_backup"} \X Timestamps

Names == UserNames \cup BackupNames

NoName == <<"none", 0>>

\* `auto_backup_${timestamp}`
AutoBackupName(t) == <<"auto_backup", t>>

\* name.startsWith('auto_backup')
startsWithAutoBackup(name) == name[1] = "auto_backup"

\* ------------------------------------------------------------- timestamps
\* A time string is the record of its form and of the second it names:
\* "iso" for 2024-01-15T10:30:45.000Z, "dashed" for 2024-01-15T10-30-45.
\* new Date().toISOString() at second t
toISOString(t) == [form |-> "iso", sec |-> t]

\* .replace(/[:.]/g, '-').slice(0, -5) of an ISO string
dashed(iso) == [form |-> "dashed", sec |-> iso.sec]

\* the timestamp that saveCheckpoint writes at second t
Timestamp(t) == dashed(toISOString(t))

\* a.localeCompare(b) of two time strings of one form: -1, 0 or 1
localeCompare(a, b) ==
  IF a.sec < b.sec THEN -1 ELSE IF a.sec > b.sec THEN 1 ELSE 0

\* a Date: its time value in seconds, or an Invalid Date (time value NaN)
DateOf(t) == [valid |-> TRUE, time |-> t]

InvalidDate == [valid |-> FALSE, time |-> 0]

\* new Date(s): the date parser reads the ISO form; after the T it takes
\* hours, minutes and seconds joined by colons and nothing else, so a dashed
\* string is an Invalid Date
DateParse(s) == IF s.form = "iso" THEN DateOf(s.sec) ELSE InvalidDate

\* a < b on two Dates: false when the time value of one is NaN
DateBefore(a, b) == a.valid /\ b.valid /\ a.time < b.time

\* ------------------------------------------------------------ fingerprint
\* a size in allocated blocks: the empty file takes one
statSize_Blocks(c) == (c + 1) \div 2

\* stat.size of a file with content c: content 1 is the empty file
statSize(c) == c \div 2

\* md5 of the bytes: one digest per content, '' is never a digest
calculateFileHash(c) == <<"md5", c>>

\* a tree keeps no modification time: its scans carry mtime 0
getFileInfo(c) ==
  [size |-> statSize(c), mtime |-> 0, hash |-> calculateFileHash(c)]

\* -------------------------------------------------------------- exclusion
CopyExcludePatterns == {".checkpoints", ".git", "node_modules", "__pycache__"}

ScanExcludePatterns ==
  {".checkpoints", ".git", "node_modules", "__pycache__", ".vscode"}

\* excludePatterns.includes(item) at some level of the walk down to p
Excluded(p, patterns) == \E i \in 1 .. Len(p) : p[i] \in patterns

\* ------------------------------------------------------------ tree walks
RECURSIVE SumOver(_, _, _)
SumOver(seq, tree, perFile) ==
  IF seq = <<>> THEN 0
  ELSE (IF tree[Head(seq)] = 0 THEN 0
        ELSE Weight(Head(seq)) * (IF perFile THEN 1 ELSE statSize(tree[Head(seq)])))
       + SumOver(Tail(seq), tree, perFile)

\* number of files under a directory
CountFiles(tree) == SumOver(PathOrder, tree, TRUE)

\* a size that counts the files and not their bytes
calculateDirectorySize_FileCount(tree) == SumOver(PathOrder, tree, TRUE)

calculateDirectorySize(tree) == SumOver(PathOrder, tree, FALSE)

\* the scan: key -> FileInfo for every regular file that is not excluded
getFileList(tree) ==
  [p \in {q \in Paths : tree[q] # 0 /\ ~Excluded(q, ScanExcludePatterns)}
     |-> getFileInfo(tree[p])]

\* a comparison that also looks at the modification time
fileChanged_WithMtime(currentInfo, baseInfo) ==
  \/ currentInfo.hash # baseInfo.hash
  \/ currentInfo.size # baseInfo.size
  \/ currentInfo.mtime # baseInfo.mtime

\* hashChanged || sizeChanged
fileChanged(currentInfo, baseInfo) ==
  currentInfo.hash # baseInfo.hash \/ currentInfo.size # baseInfo.size

\* the loop of getChangedFiles over the entries of currentFiles
changedFilesOf(baseFiles, currentFiles) ==
  SelectSeq(PathOrder,
            LAMBDA p : /\ p \in DOMAIN currentFiles
                       /\ \/ p \notin DOMAIN baseFiles
                          \/ fileChanged(currentFiles[p], baseFiles[p]))

getChangedFiles(baseTree, current) ==
  changedFilesOf(getFileList(baseTree), getFileList(current))

RECURSIVE ChangedCount(_)
\* changedFiles.length
ChangedCount(changedFiles) ==
  IF changedFiles = <<>> THEN 0
  ELSE Weight(Head(changedFiles)) + ChangedCount(Tail(changedFiles))

InSeq(x, seq) == \E i \in 1 .. Len(seq) : seq[i] = x

\* files written under dest by copyDirectory(src, dest, patterns)
copyDirectory(src, dest, patterns) ==
  [p \in Paths |->
     IF src[p] # 0 /\ ~Excluded(p, patterns) THEN src[p] ELSE dest[p]]

\* the new directory after copyIncrementalFiles(changedFiles, ..)
copyIncrementalFiles(changedFiles, current) ==
  [p \in Paths |-> IF InSeq(p, changedFiles) THEN current[p] ELSE 0]

\* ------------------------------------------------------------ the archive
NoDir == [exists |-> FALSE, files |-> EmptyTree]

\* index of the entry of name in the metadata document, 0 if there is none
IndexOf(md, name) ==
  IF \E i \in 1 .. Len(md) : md[i].name = name
  THEN CHOOSE i \in 1 .. Len(md) : md[i].name = name
  ELSE 0

HasEntry(md, name) == IndexOf(md, name) # 0

EntryOf(md, name) == md[IndexOf(md, name)]

\* metadata[name] = entry: an existing key keeps its place
SetEntry(md, entry) ==
  IF HasEntry(md, entry.name)
  THEN [md EXCEPT ![IndexOf(md, entry.name)] = entry]
  ELSE Append(md, entry)

\* a delete that leaves the index as it is
DeleteEntry_Kept(md, name) == md

\* delete metadata[name]
DeleteEntry(md, name) == SelectSeq(md, LAMBDA e : e.name # name)

\* entries that are not incremental, newest timestamp first; the sort is
\* stable, so of the entries with the newest timestamp the first in key
\* order is taken
getLastCheckpoint(md) ==
  LET full == {i \in 1 .. Len(md) : ~md[i].isIncremental}
      first == CHOOSE i \in full :
                 \A j \in full :
                    \/ localeCompare(md[j].timestamp, md[i].timestamp) < 0
                    \/ /\ localeCompare(md[j].timestamp, md[i].timestamp) = 0
                       /\ i <= j
  IN IF full = {} THEN NoName ELSE md[first].name

\* the snapshot that saveCheckpoint looks for: none when forceFull
lastCheckpointFor(forceFull, md) ==
  IF forceFull THEN NoName ELSE getLastCheckpoint(md)

\* an existence test that finds every directory
existsSync_Always(st, name) == TRUE

\* an existence test with its result turned round
existsSync_Negated(st, name) == ~st[name].exists

\* fs.existsSync(checkpointPath) for the directory of a snapshot
existsSync(st, name) == st[name].exists

\* a comparison that forgets to test lastCheckpoint and its directory
canCompare_Unchecked(st, lastCheckpoint) == TRUE

\* if (lastCheckpoint) { ... if (fs.existsSync(baseCheckpointPath))
canCompare(st, lastCheckpoint) ==
  lastCheckpoint # NoName /\ st[lastCheckpoint].exists

\* a threshold that lets an unchanged workspace in
worthIncremental_FromZero(k) == k >= 0 /\ k < IncrementalThreshold

\* a threshold that starts at two changed files
worthIncremental_FromTwo(k) == k > 1 /\ k < IncrementalThreshold

\* a threshold that lets the hundredth file in
worthIncremental_Inclusive(k) == k > 0 /\ k <= IncrementalThreshold

\* changedFiles.length > 0 && changedFiles.length < 100
worthIncremental(k) == k > 0 /\ k < IncrementalThreshold

\* the files of a snapshot directory, none if there is no such directory
FilesOf(st, name) == IF name \in DOMAIN st THEN st[name].files ELSE EmptyTree

\* -------------------------------------------------------------- failures
\* what goes wrong inside one saveCheckpoint: the paths whose copyFileSync
\* throws, and the paths at whose copy the extension host is stopped
NoFaults == [copy |-> {}, stop |-> {}]

Faults ==
  { NoFaults,
    [copy |-> {<<"a.txt">>}, stop |-> {}],
    [copy |-> {}, stop |-> {<<"a.txt">>}] }

\* place of a path in the order of readdirSync
PositionOf(p) == CHOOSE i \in 1 .. Len(PathOrder) : PathOrder[i] = p

\* the paths of todo that a loop gets to before the first one that ends it
ReachedBefore(todo, ending) ==
  {p \in todo : \A q \in todo \cap ending : PositionOf(p) < PositionOf(q)}

\* how a loop over todo ends: it returns, or the first path that ends it
\* throws or stops the process
EndOf(todo, faults) ==
  LET ending == todo \cap (faults.copy \cup faults.stop)
      first == CHOOSE q \in ending :
                 \A r \in ending : PositionOf(q) <= PositionOf(r)
  IN IF ending = {} THEN "returned"
     ELSE IF first \in faults.stop THEN "stopped" ELSE "thrown"

\* a removal that leaves the directory where it is
removeDirectory_Kept(st, name) == st

\* removeDirectory(checkpointPath)
removeDirectory(st, name) ==
  [n \in DOMAIN st |-> IF n = name THEN NoDir ELSE st[n]]

\* copyDirectory(src, dest, patterns) under faults: no try/catch, the first
\* copyFileSync that throws ends the walk
copyDirectoryUnder(src, dest, patterns, faults) ==
  LET todo == {p \in Paths : src[p] # 0 /\ ~Excluded(p, patterns)}
      reached == ReachedBefore(todo, faults.copy \cup faults.stop)
      copied == [p \in Paths |-> IF p \in reached THEN src[p] ELSE 0]
  IN [copied |-> copied,
      files |-> [p \in Paths |-> IF p \in reached THEN src[p] ELSE dest[p]],
      ended |-> EndOf(todo, faults)]

\* copyIncrementalFiles(changedFiles, ..) under faults: a copyFileSync that
\* throws is logged, the file is skipped and the loop goes on
copyIncrementalFilesUnder(changedFiles, current, dest, faults) ==
  LET todo == {p \in Paths : InSeq(p, changedFiles)}
      reached == ReachedBefore(todo, faults.stop) \ faults.copy
      copied == [p \in Paths |-> IF p \in reached THEN current[p] ELSE 0]
  IN [copied |-> copied,
      files |-> [p \in Paths |->
                   IF p \in reached THEN current[p] ELSE dest[p]],
      ended |-> EndOf(todo, [copy |-> {}, stop |-> faults.stop])]

\* an index that is written whether or not the copy went through
metadataAfter_Always(md, entry, ended) == SetEntry(md, entry)

\* metadata = loadMetadata(); metadata[name] = entry; saveMetadata(metadata):
\* reached only when nothing was thrown and the process still runs
metadataAfter(md, entry, ended) ==
  IF ended = "returned" THEN SetEntry(md, entry) ELSE md

\* saveCheckpoint(name, description, forceFull) run in workspace w, archive
\* (st, md), at clock t, under faults
SaveCheckpointUnder(w, st, md, name, forceFull, t, faults) ==
  LET st1 == removeDirectory(st, name)
      lastCheckpoint == lastCheckpointFor(forceFull, md)
      compared == canCompare(st1, lastCheckpoint)
      changedFiles ==
        IF compared THEN getChangedFiles(FilesOf(st1, lastCheckpoint), w)
        ELSE <<>>
      k == ChangedCount(changedFiles)
      isIncremental == compared /\ worthIncremental(k)
      copy ==
        IF isIncremental
        THEN copyIncrementalFilesUnder(changedFiles, w, FilesOf(st1, name),
                                       faults)
        ELSE copyDirectoryUnder(w, FilesOf(st1, name), CopyExcludePatterns,
                                faults)
      incrementalSize == calculateDirectorySize(copy.files)
      totalSize ==
        IF isIncremental
        THEN calculateDirectorySize(FilesOf(st1, lastCheckpoint))
               + incrementalSize
        ELSE incrementalSize
      entry ==
        [name |-> name,
         timestamp |-> Timestamp(t),
         fileCount |-> CountFiles(copy.copied),
         isIncremental |-> isIncremental,
         baseCheckpoint |-> IF isIncremental THEN lastCheckpoint ELSE NoName,
         changedFiles |-> IF isIncremental THEN changedFiles ELSE <<>>,
         totalSize |-> totalSize,
         incrementalSize |-> incrementalSize]
  IN [store |-> [n \in DOMAIN st |->
                   IF n = name THEN [exists |-> TRUE, files |-> copy.files]
                   ELSE st[n]],
      meta |-> metadataAfter(md, entry, copy.ended),
      k |-> IF compared THEN k ELSE -1,
      ok |-> copy.ended = "returned",
      ended |-> copy.ended]

\* saveCheckpoint(name, description, forceFull) when nothing goes wrong
SaveCheckpoint(w, st, md, name, forceFull, t) ==
  SaveCheckpointUnder(w, st, md, name, forceFull, t, NoFaults)

\* ------------------------------------------------------------------ state
VARIABLES
  ws,        \* the workspace tree outside the storage directory
  store,     \* name -> snapshot directory under .checkpoints
  meta,      \* metadata.json: the entries in key order
  now,       \* the wall clock, in the seconds that the timestamp keeps
  pc,        \* position inside restoreCheckpoint, "idle" between operations
  cur,       \* locals of the running restoreCheckpoint
  lastOp,    \* the operation last called, its inputs and its result
  captured,  \* name -> workspace that the latest saveCheckpoint(name) saw
  calls,     \* number of create, restore, delete and prune calls and of
             \* edits so far
  limit,     \* how many of each the run explores, and the names it creates
  probe,     \* the input of the change detector or of the scanner when it
             \* runs alone, and what it returned
  callers    \* two extension hosts on the same archive, each inside or
             \* outside one saveCheckpoint

vars ==
  <<ws, store, meta, now, pc, cur, lastOp, captured, calls, limit, probe,
    callers>>

\* position of the running call among all manager calls
Ops == calls.create + calls.restore + calls.delete

NoCalls == [create |-> 0, restore |-> 0, delete |-> 0, edit |-> 0, prune |-> 0]

Total(c) == c.create + c.restore + c.delete + c.edit + c.prune

\* the run may still take a step of this kind
Within(kind) == calls[kind] < limit[kind] /\ Total(calls) < limit.total

NoCapture == [valid |-> FALSE, tree |-> EmptyTree, seq |-> 0]

NoCur == [name |-> NoName, src |-> NoName, overlay |-> FALSE,
          changedFiles |-> <<>>]

NoOp ==
  [op |-> "none", name |-> NoName, forceFull |-> FALSE, ok |-> FALSE,
   done |-> TRUE, k |-> -1, wsPre |-> EmptyTree, cap |-> NoCapture,
   incrPre |-> FALSE, baseCap |-> NoCapture, backup |-> NoName,
   backupDone |-> FALSE, incr |-> FALSE, base |-> NoName,
   baseFull |-> FALSE, hadFull |-> FALSE, undoes |-> FALSE,
   hadEntry |-> FALSE, days |-> 0, count |-> 0, afterPrune |-> FALSE]

Callers == {1, 2}

\* a host that has not called saveCheckpoint
NoCaller ==
  [pc |-> "idle", name |-> NoName, entry |-> <<>>, metadata |-> <<>>,
   early |-> FALSE, ok |-> FALSE]

NoCallers == [c \in Callers |-> NoCaller]

NoProbe == [baseFiles |-> <<>>, currentFiles |-> <<>>, changedFiles |-> <<>>,
            done |-> TRUE]

\* a project under version control with a source file, a directory of
\* generated files, the editor settings and an installed dependency
InitialWorkspace == [p \in Paths |-> 1]

Init ==
  /\ ws = InitialWorkspace
  /\ store = [n \in Names |-> NoDir]
  /\ meta = <<>>
  /\ now = 0
  /\ pc = "idle"
  /\ cur = NoCur
  /\ lastOp = NoOp
  /\ captured = [n \in Names |-> NoCapture]
  /\ calls = NoCalls
  /\ probe = NoProbe
  /\ callers = NoCallers
  /\ limit = [create |-> MaxOps, restore |-> MaxOps, delete |-> MaxOps,
              edit |-> MaxOps, prune |-> MaxOps, total |-> MaxOps,
              names |-> {<<"s", 1>>, <<"s", 2>>}]

\* ------------------------------------------------------------ environment
\* what the user does to each path: the source file is rewritten or removed,
\* the settings file is rewritten, the generated directory and the
\* dependency are removed or put back; no commit is made, so the file of
\* the version control stays as it is
EditContents(p) ==
  IF p = <<"a.txt">> THEN {0, 1, 2}
  ELSE IF p = <<".vscode", "settings.json">> THEN {1, 2}
  ELSE IF p = <<".git", "HEAD">> THEN {1}
  ELSE {0, 1}

\* the user writes, rewrites or removes a file between two operations
EditFile(p, c) ==
  /\ pc = "idle"
  /\ Within("edit")
  /\ c \in EditContents(p)
  /\ ws[p] # c
  /\ ws' = [ws EXCEPT ![p] = c]
  /\ calls' = [calls EXCEPT !.edit = @ + 1]
  /\ lastOp' = [NoOp EXCEPT !.op = "edit"]
  /\ UNCHANGED <<store, meta, now, pc, cur, captured, limit, probe, callers>>

\* the clock reaches the next second
Tick ==
  /\ pc = "idle"
  /\ now < MaxTime
  /\ now' = now + 1
  /\ UNCHANGED <<ws, store, meta, pc, cur, lastOp, captured, calls, limit, probe, callers>>

HasFullEntry(md) == \E i \in 1 .. Len(md) : ~md[i].isIncremental

\* ----------------------------------------------------------------- create
Create(name, forceFull) ==
  /\ pc = "idle"
  /\ Within("create")
  /\ name \in limit.names
  /\ \E r \in {SaveCheckpoint(ws, store, meta, name, forceFull, now)} :
        /\ store' = r.store
        /\ meta' = r.meta
        /\ lastOp' = [NoOp EXCEPT !.op = "create", !.name = name,
                                  !.forceFull = forceFull, !.ok = r.ok,
                                  !.k = r.k, !.wsPre = ws,
                                  !.hadFull = HasFullEntry(meta)]
  /\ captured' = [captured EXCEPT ![name] =
                    [valid |-> TRUE, tree |-> ws, seq |-> Ops + 1]]
  /\ calls' = [calls EXCEPT !.create = @ + 1]
  /\ UNCHANGED <<ws, now, pc, cur, limit, probe, callers>>

\* ----------------------------------------------------------------- delete
DeleteCheckpoint(name) ==
  /\ pc = "idle"
  /\ Within("delete")
  /\ calls' = [calls EXCEPT !.delete = @ + 1]
  /\ IF ~existsSync(store, name)
     THEN /\ lastOp' = [NoOp EXCEPT !.op = "delete", !.name = name]
          /\ UNCHANGED <<store, meta, captured>>
     ELSE /\ store' = [store EXCEPT ![name] = NoDir]
          /\ meta' = DeleteEntry(meta, name)
          /\ captured' = [captured EXCEPT ![name] = NoCapture]
          /\ lastOp' = [NoOp EXCEPT !.op = "delete", !.name = name,
                                    !.ok = TRUE]
  /\ UNCHANGED <<ws, now, pc, cur, limit, probe, callers>>

\* ---------------------------------------------------------------- restore
\* restoreCheckpoint(name), up to the existence check
RestoreCheckpoint(name) ==
  /\ pc = "idle"
  /\ Within("restore")
  /\ calls' = [calls EXCEPT !.restore = @ + 1]
  /\ LET had == HasEntry(meta, name)
         incrPre == had /\ EntryOf(meta, name).isIncremental
         basePre == IF incrPre THEN EntryOf(meta, name).baseCheckpoint
                    ELSE NoName
         call == [NoOp EXCEPT !.op = "restore", !.name = name,
                              !.wsPre = ws, !.cap = captured[name],
                              !.hadEntry = had, !.incrPre = incrPre,
                              !.baseCap = IF basePre \in Names
                                          THEN captured[basePre]
                                          ELSE NoCapture,
                              !.backup = AutoBackupName(now),
                              !.undoes = /\ lastOp.op = "restore"
                                         /\ lastOp.ok
                                         /\ lastOp.backup = name,
                              !.afterPrune = lastOp.op = "prune"]
     IN IF ~existsSync(store, name)
        THEN /\ lastOp' = call
             /\ UNCHANGED <<pc, cur>>
        ELSE /\ lastOp' = [call EXCEPT !.done = FALSE]
             /\ pc' = "backup"
             /\ cur' = [NoCur EXCEPT !.name = name]
  /\ UNCHANGED <<ws, store, meta, now, captured, limit, probe, callers>>

\* the auto-backup, then the lookup of the target's metadata and the
\* checks of restoreIncrementalCheckpoint that come before the clear
RestoreBackup ==
  /\ pc = "backup"
  /\ \E r \in {SaveCheckpoint(ws, store, meta, AutoBackupName(now),
                                FALSE, now)} :
     LET backupName == AutoBackupName(now)
         had == HasEntry(r.meta, cur.name)
         checkpointMeta == EntryOf(r.meta, cur.name)
         incr == /\ had
                 /\ checkpointMeta.isIncremental
                 /\ checkpointMeta.baseCheckpoint # NoName
         base == IF incr THEN checkpointMeta.baseCheckpoint ELSE NoName
         seen == [lastOp EXCEPT
                    !.backupDone = TRUE, !.incr = incr, !.base = base,
                    !.baseFull = /\ incr
                                 /\ HasEntry(r.meta, base)
                                 /\ ~EntryOf(r.meta, base).isIncremental]
     IN /\ store' = r.store
        /\ meta' = r.meta
        /\ captured' = [captured EXCEPT ![backupName] =
                          [valid |-> TRUE, tree |-> ws, seq |-> Ops]]
        /\ IF incr /\ ~r.store[base].exists
           THEN /\ pc' = "idle"
                /\ cur' = NoCur
                /\ lastOp' = [seen EXCEPT !.done = TRUE, !.ok = FALSE]
           ELSE /\ pc' = "clear"
                /\ cur' = [cur EXCEPT
                             !.src = IF incr THEN base ELSE cur.name,
                             !.overlay = incr,
                             !.changedFiles =
                                IF incr THEN checkpointMeta.changedFiles
                                ELSE <<>>]
                /\ lastOp' = seen
  /\ UNCHANGED <<ws, now, calls, limit, probe, callers>>

\* a clear that steps over everything that the snapshots leave out
KeptOnClear_CopyList(p) == Excluded(p, CopyExcludePatterns)

\* the entries that the clear of restoreFullCheckpoint steps over
KeptOnClear(p) == p[1] = ".checkpoints" \/ p[1] = ".git"

\* a restore that clears the workspace before it takes the safety backup
RestoreClear_BeforeBackup ==
  /\ pc \in {"backup", "clear"}
  /\ ws' = [p \in Paths |-> IF KeptOnClear(p) THEN ws[p] ELSE 0]
  /\ pc' = IF pc = "clear" THEN "copy" ELSE pc
  /\ UNCHANGED <<store, meta, now, cur, lastOp, captured, calls, limit, probe, callers>>

\* restoreFullCheckpoint: clear the workspace
RestoreClear ==
  /\ pc = "clear"
  /\ ws' = [p \in Paths |-> IF KeptOnClear(p) THEN ws[p] ELSE 0]
  /\ pc' = "copy"
  /\ UNCHANGED <<store, meta, now, cur, lastOp, captured, calls, limit, probe, callers>>

\* a restore of an incremental snapshot that leaves out the copy of the base
RestoreCopy_OverlayOnly ==
  /\ pc = "copy"
  /\ ws' = IF cur.overlay THEN ws
           ELSE copyDirectory(store[cur.src].files, ws, {})
  /\ IF cur.overlay
     THEN /\ pc' = "overlay"
          /\ UNCHANGED <<cur, lastOp>>
     ELSE /\ pc' = "idle"
          /\ cur' = NoCur
          /\ lastOp' = [lastOp EXCEPT !.done = TRUE, !.ok = TRUE]
  /\ UNCHANGED <<store, meta, now, captured, calls, limit, probe, callers>>

\* restoreFullCheckpoint: copy the snapshot directory with no exclusions
RestoreCopy ==
  /\ pc = "copy"
  /\ ws' = copyDirectory(store[cur.src].files, ws, {})
  /\ IF cur.overlay
     THEN /\ pc' = "overlay"
          /\ UNCHANGED <<cur, lastOp>>
     ELSE /\ pc' = "idle"
          /\ cur' = NoCur
          /\ lastOp' = [lastOp EXCEPT !.done = TRUE, !.ok = TRUE]
  /\ UNCHANGED <<store, meta, now, captured, calls, limit, probe, callers>>

\* restoreIncrementalCheckpoint: apply the incremental changes
RestoreOverlay ==
  /\ pc = "overlay"
  /\ ws' = [p \in Paths |->
              IF InSeq(p, cur.changedFiles) /\ store[cur.name].files[p] # 0
              THEN store[cur.name].files[p]
              ELSE ws[p]]
  /\ pc' = "idle"
  /\ cur' = NoCur
  /\ lastOp' = [lastOp EXCEPT !.done = TRUE, !.ok = TRUE]
  /\ UNCHANGED <<store, meta, now, captured, calls, limit, probe, callers>>

\* ------------------------------------------------------------------ prune
DaySeconds == 86400

\* the values of days that the runs pass to cleanOldCheckpoints
Days == {0, 1}

\* const cutoff = new Date(); cutoff.setDate(cutoff.getDate() - days)
Cutoff(t, days) == DateOf(t - days * DaySeconds)

\* the test of the loop of cleanOldCheckpoints on one entry
tooOld(info, name, cutoff) ==
  /\ DateBefore(DateParse(info.timestamp), cutoff)
  /\ ~startsWithAutoBackup(name)

\* cleanOldCheckpoints(days): deleteCheckpoint for every entry of the index
\* that the test selects; a call on a missing directory returns false
CleanOldCheckpoints(days) ==
  /\ pc = "idle"
  /\ Within("prune")
  /\ calls' = [calls EXCEPT !.prune = @ + 1]
  /\ LET selected == {i \in 1 .. Len(meta) :
                        tooOld(meta[i], meta[i].name, Cutoff(now, days))}
         deleted == {meta[i].name : i \in {j \in selected :
                                             existsSync(store, meta[j].name)}}
     IN /\ store' = [n \in Names |-> IF n \in deleted THEN NoDir ELSE store[n]]
        /\ meta' = SelectSeq(meta, LAMBDA e : e.name \notin deleted)
        /\ captured' = [n \in Names |->
                          IF n \in deleted THEN NoCapture ELSE captured[n]]
        /\ lastOp' = [NoOp EXCEPT !.op = "prune", !.days = days, !.ok = TRUE,
                                  !.count = Cardinality(deleted)]
  /\ UNCHANGED <<ws, now, pc, cur, limit, probe, callers>>

\* ------------------------------------------------- the storage directory
\* metadata.json is lost or no longer parses: loadMetadata returns {} from
\* now on, and the snapshot directories stay
LoseMetadata ==
  /\ pc = "idle"
  /\ Within("edit")
  /\ meta # <<>>
  /\ meta' = <<>>
  /\ calls' = [calls EXCEPT !.edit = @ + 1]
  /\ lastOp' = [NoOp EXCEPT !.op = "edit"]
  /\ UNCHANGED <<ws, store, now, pc, cur, captured, limit, probe, callers>>

\* a snapshot directory is removed from the storage directory by hand; its
\* index entry stays
RemoveSnapshotDir(name) ==
  /\ pc = "idle"
  /\ Within("edit")
  /\ store[name].exists
  /\ store' = [store EXCEPT ![name] = NoDir]
  /\ calls' = [calls EXCEPT !.edit = @ + 1]
  /\ lastOp' = [NoOp EXCEPT !.op = "edit"]
  /\ UNCHANGED <<ws, meta, now, pc, cur, captured, limit, probe, callers>>

\* ------------------------------------------------------------------- spec
Next ==
  \/ \E p \in Paths, c \in {0, 1, 2} : EditFile(p, c)
  \/ Tick
  \/ \E name \in UserNames, forceFull \in BOOLEAN : Create(name, forceFull)
  \/ \E name \in Names : DeleteCheckpoint(name)
  \/ \E name \in Names : RestoreCheckpoint(name)
  \/ RestoreBackup
  \/ RestoreClear
  \/ RestoreCopy
  \/ RestoreOverlay

Spec == Init /\ [][Next]_vars

\* the manager with prune, in a storage directory that the user or a crash
\* may damage
NextWide ==
  \/ Next
  \/ \E days \in Days : CleanOldCheckpoints(days)
  \/ LoseMetadata
  \/ \E name \in Names : RemoveSnapshotDir(name)

SpecWide == Init /\ [][NextWide]_vars

TypeOK ==
  /\ ws \in Trees
  /\ now \in Timestamps
  /\ pc \in {"idle", "backup", "clear", "copy", "overlay"}
  /\ \A f \in DOMAIN calls : calls[f] \in 0 .. limit[f]
  /\ Total(calls) <= limit.total

\* ------------------------------------- two hosts on the same archive
\* creates of the first snapshot and edits explored before and during the
\* two calls
RaceOps == 2

\* the names that the two hosts save under
RaceNames == {<<"s", 1>>, <<"s", 2>>}

\* host c runs saveCheckpoint(name, .., forceFull) up to the update of the
\* index: the directory is written and the entry is ready
RaceCopy(c, name, forceFull) ==
  /\ pc = "idle"
  /\ callers[c].pc = "idle"
  /\ name \in RaceNames
  /\ \A d \in Callers : callers[d].name # name
  /\ \E r \in {SaveCheckpoint(ws, store, meta, name, forceFull, now)} :
        /\ store' = r.store
        /\ callers' = [callers EXCEPT ![c] =
                         [NoCaller EXCEPT !.pc = "copied", !.name = name,
                                          !.entry = EntryOf(r.meta, name)]]
  /\ UNCHANGED <<ws, meta, now, pc, cur, lastOp, captured, calls, limit, probe>>

\* const metadata = this.loadMetadata() in host c
RaceLoad(c) ==
  /\ callers[c].pc = "copied"
  /\ callers' = [callers EXCEPT
                   ![c].pc = "loaded",
                   ![c].metadata = meta,
                   ![c].early = \A d \in Callers : callers[d].pc # "returned"]
  /\ UNCHANGED <<ws, store, meta, now, pc, cur, lastOp, captured, calls, limit,
                 probe>>

\* a host that reads the index again at the moment it writes it
RaceSave_Reloaded(c) ==
  /\ callers[c].pc = "loaded"
  /\ meta' = SetEntry(meta, callers[c].entry)
  /\ callers' = [callers EXCEPT ![c].pc = "returned", ![c].ok = TRUE]
  /\ UNCHANGED <<ws, store, now, pc, cur, lastOp, captured, calls, limit,
                 probe>>

\* metadata[name] = entry; this.saveMetadata(metadata); return true
RaceSave(c) ==
  /\ callers[c].pc = "loaded"
  /\ meta' = SetEntry(callers[c].metadata, callers[c].entry)
  /\ callers' = [callers EXCEPT ![c].pc = "returned", ![c].ok = TRUE]
  /\ UNCHANGED <<ws, store, now, pc, cur, lastOp, captured, calls, limit,
                 probe>>

\* the archive is empty or holds the snapshot s3, taken before the two
\* hosts call
InitRace ==
  /\ ws = InitialWorkspace
  /\ store = [n \in Names |-> NoDir]
  /\ meta = <<>>
  /\ now = 0
  /\ pc = "idle"
  /\ cur = NoCur
  /\ lastOp = NoOp
  /\ captured = [n \in Names |-> NoCapture]
  /\ calls = NoCalls
  /\ probe = NoProbe
  /\ callers = NoCallers
  /\ limit = [create |-> RaceOps, restore |-> 0, delete |-> 0,
              edit |-> RaceOps, prune |-> 0, total |-> RaceOps,
              names |-> {<<"s", 3>>}]

NextRace ==
  \/ \E p \in Paths, c \in {0, 1, 2} : EditFile(p, c)
  \/ Tick
  \/ \E forceFull \in BOOLEAN :
        callers = NoCallers /\ Create(<<"s", 3>>, forceFull)
  \/ \E c \in Callers, name \in RaceNames, forceFull \in BOOLEAN :
        RaceCopy(c, name, forceFull)
  \/ \E c \in Callers : RaceLoad(c)
  \/ \E c \in Callers : RaceSave(c)

SpecRace == InitRace /\ [][NextRace]_vars

\* ------------------------------------------ the change detector alone
\* the paths of the scans handed to the detector
ProbePaths == {<<"a.txt">>, BulkPath}

\* the FileInfo values of a scan: two sizes, two modification times, two
\* digests
FileInfos ==
  [size : {0, 1}, mtime : {0, 1},
   hash : {calculateFileHash(1), calculateFileHash(2)}]

\* a scan maps the paths it found to their FileInfo
Scans == UNION {[D -> FileInfos] : D \in SUBSET ProbePaths}

InitDetect ==
  /\ ws = InitialWorkspace
  /\ store = [n \in Names |-> NoDir]
  /\ meta = <<>>
  /\ now = 0
  /\ pc = "idle"
  /\ cur = NoCur
  /\ lastOp = NoOp
  /\ captured = [n \in Names |-> NoCapture]
  /\ calls = NoCalls
  /\ limit = [create |-> 0, restore |-> 0, delete |-> 0, edit |-> 0,
              prune |-> 0, total |-> 0, names |-> {}]
  /\ \E b \in Scans, c \in Scans :
       probe = [baseFiles |-> b, currentFiles |-> c, changedFiles |-> <<>>,
                done |-> FALSE]
  /\ callers = NoCallers

\* the loop of getChangedFiles runs on the two scans
Detect ==
  /\ ~probe.done
  /\ probe' = [probe EXCEPT
                 !.changedFiles =
                    changedFilesOf(probe.baseFiles, probe.currentFiles),
                 !.done = TRUE]
  /\ UNCHANGED <<ws, store, meta, now, pc, cur, lastOp, captured, calls, limit,
               callers>>

NextDetect == Detect

SpecDetect == InitDetect /\ [][NextDetect]_vars

\* ------------------------------------------------- the scanner alone
\* what goes wrong inside one scan: the paths on which statSync throws in
\* the loop of getFileList (an entry that vanished, a dangling link), and
\* the paths that readFileSync cannot read
NoScanFaults == [stat |-> {}, read |-> {}]

ScanFaults ==
  { NoScanFaults,
    [stat |-> {<<"a.txt">>}, read |-> {}],
    [stat |-> {}, read |-> {<<"a.txt">>}],
    [stat |-> {<<".vscode", "settings.json">>}, read |-> {}] }

\* calculateFileHash when readFileSync throws: return ''
EmptyHash == <<"", 0>>

\* p is an entry of the directory of q, or lies below one, and the loop over
\* that directory comes to it at q or after q
LostWith(p, q) ==
  /\ PositionOf(p) >= PositionOf(q)
  /\ \A i \in 1 .. Len(q) - 1 : Len(p) >= i /\ p[i] = q[i]

\* getFileList(dirPath) under faults: the try/catch is around the loop over
\* a directory, so a statSync that throws ends the loop of that directory;
\* a file that cannot be read keeps its entry, with hash ''
getFileListUnder(tree, faults) ==
  LET listed == {q \in Paths : tree[q] # 0 /\ ~Excluded(q, ScanExcludePatterns)}
      found == {p \in listed :
                  \A q \in listed \cap faults.stat : ~LostWith(p, q)}
  IN [p \in found |->
        [size |-> statSize(tree[p]), mtime |-> 0,
         hash |-> IF p \in faults.read THEN EmptyHash
                  ELSE calculateFileHash(tree[p])]]

NoScan == [tree |-> EmptyTree, faults |-> NoScanFaults, files |-> <<>>,
           done |-> TRUE]

InitScan ==
  /\ ws = InitialWorkspace
  /\ store = [n \in Names |-> NoDir]
  /\ meta = <<>>
  /\ now = 0
  /\ pc = "idle"
  /\ cur = NoCur
  /\ lastOp = NoOp
  /\ captured = [n \in Names |-> NoCapture]
  /\ calls = NoCalls
  /\ limit = [create |-> 0, restore |-> 0, delete |-> 0, edit |-> 0,
              prune |-> 0, total |-> 0, names |-> {}]
  /\ \E tree \in Trees, faults \in ScanFaults :
       probe = [NoScan EXCEPT !.tree = tree, !.faults = faults,
                              !.done = FALSE]
  /\ callers = NoCallers

\* getFileList runs on the tree
Scan ==
  /\ ~probe.done
  /\ probe' = [probe EXCEPT
                 !.files = getFileListUnder(probe.tree, probe.faults),
                 !.done = TRUE]
  /\ UNCHANGED <<ws, store, meta, now, pc, cur, lastOp, captured, calls, limit,
                 callers>>

NextScan == Scan

SpecScan == InitScan /\ [][NextScan]_vars

\* --------------------------------------------- a longer-lived archive
\* calls and edits that SpecDeep explores after its initial history
DeepCreates == 2
DeepRestores == 2
DeepDeletes == 1
DeepEdits == 2
DeepOps == 4

\* SpecDeep starts after create(s1), one edit, create(s2), all within one
\* second.  After the rewrite of a.txt, s2 is an incremental snapshot on s1;
\* after the removal of the generated files the detector sees no change and
\* s2 is a second full snapshot.
SeedKinds == {"layered", "twofull"}

SeedWorkspace(kind) ==
  [p \in Paths |->
     IF kind = "layered" /\ p = <<"a.txt">> THEN 2
     ELSE IF kind = "twofull" /\ p = BulkPath THEN 0
     ELSE InitialWorkspace[p]]

SeedFull ==
  SaveCheckpoint(InitialWorkspace, [n \in Names |-> NoDir], <<>>,
                 <<"s", 1>>, FALSE, 0)

SeedSecond(w) ==
  SaveCheckpoint(w, SeedFull.store, SeedFull.meta, <<"s", 2>>, FALSE, 0)

SeedCalls == [create |-> 2, restore |-> 0, delete |-> 0, edit |-> 1, prune |-> 0]

\* the budget of SpecDeep
DeepLimit ==
  [create |-> SeedCalls.create + DeepCreates,
   restore |-> DeepRestores,
   delete |-> DeepDeletes,
   edit |-> SeedCalls.edit + DeepEdits,
   prune |-> 0,
   total |-> Total(SeedCalls) + DeepOps,
   names |-> UserNames]

\* the state after the initial history of the given kind
SeedInit(kind, budget) ==
  \E w \in {SeedWorkspace(kind)} : \E second \in {SeedSecond(w)} :
    /\ ws = w
    /\ store = second.store
    /\ meta = second.meta
    /\ now = 0
    /\ pc = "idle"
    /\ cur = NoCur
    /\ lastOp = [NoOp EXCEPT !.op = "create", !.name = <<"s", 2>>,
                             !.ok = TRUE, !.k = second.k,
                             !.wsPre = w, !.hadFull = TRUE]
    /\ captured =
         [n \in Names |->
            IF n = <<"s", 1>>
            THEN [valid |-> TRUE, tree |-> InitialWorkspace, seq |-> 1]
            ELSE IF n = <<"s", 2>>
            THEN [valid |-> TRUE, tree |-> w, seq |-> 2]
            ELSE NoCapture]
    /\ calls = SeedCalls
    /\ probe = NoProbe
    /\ callers = NoCallers
    /\ limit = budget

InitDeep == \E kind \in SeedKinds : SeedInit(kind, DeepLimit)

SpecDeep == InitDeep /\ [][Next]_vars

\* calls and edits that SpecLayered explores after the layered history
LayeredOps == 3

LayeredLimit ==
  [create |-> SeedCalls.create + LayeredOps,
   restore |-> LayeredOps,
   delete |-> LayeredOps,
   edit |-> SeedCalls.edit + LayeredOps,
   prune |-> 0,
   total |-> Total(SeedCalls) + LayeredOps,
   names |-> UserNames]

InitLayered == SeedInit("layered", LayeredLimit)

SpecLayered == InitLayered /\ [][Next]_vars

\* the initial states of SpecDeep, as states of Spec
SeedState(w) ==
  /\ ws = w
  /\ \A n \in Names :
       /\ store[n].exists = SeedSecond(w).store[n].exists
       /\ \A p \in Paths : store[n].files[p] = SeedSecond(w).store[n].files[p]
  /\ meta = SeedSecond(w).meta
  /\ captured[<<"s", 1>>] =
       [valid |-> TRUE, tree |-> InitialWorkspace, seq |-> 1]
  /\ captured[<<"s", 2>>] = [valid |-> TRUE, tree |-> w, seq |-> 2]
  /\ calls = SeedCalls
  /\ now = 0
  /\ pc = "idle"

\* TLC refutes each of these invariants of Spec with a behaviour that ends
\* in an initial state of SpecDeep
SeedLayeredUnreached == ~SeedState(SeedWorkspace("layered"))

SeedTwoFullUnreached == ~SeedState(SeedWorkspace("twofull"))

\* ------------------------------------------- the manager under failures
\* manager calls and edits explored under failures
FaultyOps == 2

\* saveCheckpoint(name, .., forceFull) during which a copy fails or the
\* extension host is stopped; a stopped call never returns, and the next
\* call finds what it left on disk
CreateUnder(name, forceFull, faults) ==
  /\ pc = "idle"
  /\ Within("create")
  /\ name \in limit.names
  /\ \E r \in {SaveCheckpointUnder(ws, store, meta, name, forceFull, now,
                                   faults)} :
        /\ store' = r.store
        /\ meta' = r.meta
        /\ lastOp' = [NoOp EXCEPT !.op = "create", !.name = name,
                                  !.forceFull = forceFull, !.ok = r.ok,
                                  !.done = (r.ended # "stopped"),
                                  !.k = r.k, !.wsPre = ws,
                                  !.hadFull = HasFullEntry(meta)]
  /\ captured' = [captured EXCEPT ![name] =
                    [valid |-> TRUE, tree |-> ws, seq |-> Ops + 1]]
  /\ calls' = [calls EXCEPT !.create = @ + 1]
  /\ UNCHANGED <<ws, now, pc, cur, limit, probe, callers>>

\* an archive after saveCheckpoint, edit, saveCheckpoint, with the budget of
\* SpecFaulty
FaultyLimit ==
  [create |-> SeedCalls.create + FaultyOps,
   restore |-> FaultyOps,
   delete |-> FaultyOps,
   edit |-> SeedCalls.edit + FaultyOps,
   prune |-> 0,
   total |-> Total(SeedCalls) + FaultyOps,
   names |-> UserNames]

\* the empty archive, or one that holds a full snapshot and an incremental
\* snapshot on it
InitFaulty ==
  \/ /\ ws = InitialWorkspace
     /\ store = [n \in Names |-> NoDir]
     /\ meta = <<>>
     /\ now = 0
     /\ pc = "idle"
     /\ cur = NoCur
     /\ lastOp = NoOp
     /\ captured = [n \in Names |-> NoCapture]
     /\ calls = NoCalls
     /\ probe = NoProbe
     /\ callers = NoCallers
     /\ limit = [create |-> FaultyOps, restore |-> FaultyOps,
                 delete |-> FaultyOps, edit |-> FaultyOps,
                 prune |-> FaultyOps, total |-> FaultyOps,
                 names |-> {<<"s", 1>>, <<"s", 2>>}]
  \/ SeedInit("layered", FaultyLimit)

NextFaulty ==
  \/ Next
  \/ \E name \in UserNames, forceFull \in BOOLEAN,
        faults \in Faults \ {NoFaults} : CreateUnder(name, forceFull, faults)

SpecFaulty == InitFaulty /\ [][NextFaulty]_vars

\* ------------------------------------- prune in a longer-lived archive
\* manager calls and edits explored with cleanOldCheckpoints
PrunedOps == 3

PrunedLimit ==
  [create |-> SeedCalls.create + PrunedOps,
   restore |-> PrunedOps,
   delete |-> PrunedOps,
   edit |-> SeedCalls.edit + PrunedOps,
   prune |-> PrunedOps,
   total |-> Total(SeedCalls) + PrunedOps,
   names |-> UserNames]

\* an archive that holds a full snapshot and an incremental snapshot on it
InitPruned == SeedInit("layered", PrunedLimit)

\* every operation of the manager, with saves that may fail
NextPruned ==
  \/ NextFaulty
  \/ \E days \in Days : CleanOldCheckpoints(days)

SpecPruned == InitPruned /\ [][NextPruned]_vars

\* --------------------------------------------- names that are paths
\* the name '..', typed into the input box of the save command
ParentName == <<"..", 0>>

\* saveCheckpoint('..', .., forceFull): path.join(checkpointDir, '..') is
\* the workspace root, which exists, so removeDirectory runs on it and takes
\* the files of the workspace and the storage directory with it.  The index
\* is gone, the copy of the empty root onto itself copies nothing, and
\* saveMetadata throws in the missing storage directory: the call returns
\* false.
CreateAtParent(forceFull) ==
  /\ pc = "idle"
  /\ Within("create")
  /\ ws' = EmptyTree
  /\ store' = [n \in Names |-> NoDir]
  /\ meta' = <<>>
  /\ captured' = [n \in Names |-> NoCapture]
  /\ lastOp' = [NoOp EXCEPT !.op = "create", !.name = ParentName,
                            !.forceFull = forceFull, !.ok = FALSE,
                            !.wsPre = ws, !.hadFull = HasFullEntry(meta)]
  /\ calls' = [calls EXCEPT !.create = @ + 1]
  /\ UNCHANGED <<now, pc, cur, limit, probe, callers>>

\* the manager called with every name that the input box lets through
NextNamed ==
  \/ NextPruned
  \/ \E forceFull \in BOOLEAN : CreateAtParent(forceFull)

SpecNamed == InitPruned /\ [][NextNamed]_vars

\* ----------------------------------------------------------------- claims
\* the exclusion set of the specification, one list for the scanner and for
\* the full-tree copy
SpecExclusions ==
  {".checkpoints", ".git", "node_modules", "__pycache__", ".vscode"}

\* a path that the snapshots are meant to capture
Tracked(p) == ~Excluded(p, SpecExclusions)

\* the paths with a changed or new file, as the specification counts them
ChangedPaths(base, current) ==
  SelectSeq(PathOrder,
            LAMBDA p : Tracked(p) /\ current[p] # 0 /\ current[p] # base[p])

\* number of tracked files of a workspace
TrackedCount(w) ==
  ChangedCount(SelectSeq(PathOrder, LAMBDA p : Tracked(p) /\ w[p] # 0))

\* s1 comes from s0 by modifying and adding files only
ModifiedOrAdded(s0, s1) == \A p \in Paths : s0[p] # 0 => s1[p] # 0

\* every tracked path has the same file, or no file, in both trees
SameTracked(t1, t2) == \A p \in Paths : Tracked(p) => t1[p] = t2[p]

\* the index entry of n is a full one
FullEntry(md, n) ==
  /\ HasEntry(md, n)
  /\ ~EntryOf(md, n).isIncremental
  /\ EntryOf(md, n).baseCheckpoint = NoName
  /\ EntryOf(md, n).changedFiles = <<>>

\* this step runs saveCheckpoint(n, .., f): a create the user calls, or the
\* safety backup of a restore
SaveCalled(n, f) ==
  \/ /\ calls'.create = calls.create + 1
     /\ lastOp'.name = n
     /\ lastOp'.forceFull = f
  \/ /\ pc = "backup"
     /\ pc' # "backup"
     /\ n = AutoBackupName(now)
     /\ f = FALSE

\* b is the one full snapshot of the index with the newest timestamp, it is
\* not the name being written and its directory is on disk
LastFullOnDisk(b, n) ==
  /\ HasEntry(meta, b)
  /\ ~EntryOf(meta, b).isIncremental
  /\ \A i \in 1 .. Len(meta) :
       (~meta[i].isIncremental /\ meta[i].name # b)
         => meta[i].timestamp.sec < EntryOf(meta, b).timestamp.sec
  /\ b # n
  /\ store[b].exists

RestoreDone == pc = "idle" /\ lastOp.op = "restore" /\ lastOp.done

RestoreOk == RestoreDone /\ lastOp.ok

\* C1: incremental round trip.  create(a) is a full snapshot of S0, the
\* next manager call is create(b) in a workspace S1 that comes from S0 by
\* modifying and adding 1 to 99 tracked files, and after further edits the
\* next manager call is a successful restore(b).  Then every tracked path of
\* the workspace holds what it held in S1: the new content where S1 changed
\* or added a file, the S0 content elsewhere, and no file where S0 and S1
\* have none.
C1_IncrementalRoundTrip ==
  \A a, b \in UserNames :
    ( /\ RestoreOk
      /\ lastOp.name = b
      /\ a # b
      /\ captured[a].valid
      /\ captured[b].valid
      /\ captured[b].seq = captured[a].seq + 1
      /\ Ops = captured[b].seq + 1
      /\ FullEntry(meta, a)
      /\ ModifiedOrAdded(captured[a].tree, captured[b].tree)
      /\ ChangedCount(ChangedPaths(captured[a].tree, captured[b].tree))
           \in 1 .. IncrementalThreshold - 1 )
    => SameTracked(ws, captured[b].tree)

C3_UndoThroughBackup ==
  ( /\ RestoreOk
    /\ lastOp.undoes
    /\ lastOp.cap.valid
    /\ lastOp.name # lastOp.backup )
  => SameTracked(ws, lastOp.cap.tree)

\* C4: the safety snapshot of a restore that passed its existence check is a
\* full snapshot: its index entry is not incremental and its directory holds
\* every tracked file of the workspace as it was when restore was called.
C4_BackupIsFull ==
  (lastOp.op = "restore" /\ lastOp.backupDone)
  => /\ FullEntry(meta, lastOp.backup)
     /\ store[lastOp.backup].exists
     /\ SameTracked(store[lastOp.backup].files, lastOp.wsPre)

\* C5: ordering inside restore.  Every step of a running restore that
\* changes the workspace comes after the safety backup: the backup step has
\* run, the backup's directory and index entry are there, and the step that
\* clears the workspace starts from the very tree that the backup saw.
C5_BackupBeforeMutation ==
  [][ (pc # "idle" /\ ws' # ws)
        => /\ lastOp.backupDone
           /\ store[lastOp.backup].exists
           /\ HasEntry(meta, lastOp.backup)
           /\ captured[lastOp.backup].valid
           /\ (pc = "clear" => captured[lastOp.backup].tree = ws) ]_vars

\* a restore has cleared the workspace and its backup is on disk
C5_Witness ==
  /\ pc = "copy"
  /\ lastOp.backupDone
  /\ store[lastOp.backup].exists
  /\ \E p \in Paths : lastOp.wsPre[p] # 0 /\ ws[p] = 0

\* C6: while the index holds no full snapshot, saveCheckpoint writes a full
\* snapshot for both values of forceFull: the entry is not incremental, names
\* no base and no changed files, and the directory holds every tracked file
\* of the workspace.
C6_FirstSnapshotIsFull ==
  [][ \A n \in Names, f \in BOOLEAN :
        (SaveCalled(n, f) /\ ~HasFullEntry(meta))
          => /\ FullEntry(meta', n)
             /\ store'[n].exists
             /\ SameTracked(store'[n].files, ws) ]_vars

\* a create without forceFull on an index with no full snapshot wrote a full
\* snapshot of a workspace that has tracked files
C6_Witness ==
  /\ lastOp.op = "create"
  /\ ~lastOp.forceFull
  /\ ~lastOp.hadFull
  /\ FullEntry(meta, lastOp.name)
  /\ TrackedCount(lastOp.wsPre) > 0
  /\ SameTracked(store[lastOp.name].files, lastOp.wsPre)

C9_ForceFull ==
  [][ \A n \in Names :
        SaveCalled(n, TRUE)
          => /\ FullEntry(meta', n)
             /\ EntryOf(meta', n).fileCount = TrackedCount(ws) ]_vars

\* C10: a restore of an incremental snapshot whose base, when the restore
\* reads the index, has no entry or an incremental entry, returns failure.
\* (The base is not the safety backup that this restore has just written.)
C10_BaseMustBeFull ==
  ( /\ RestoreDone
    /\ lastOp.incr
    /\ lastOp.base # lastOp.backup
    /\ ~lastOp.baseFull )
  => ~lastOp.ok

\* the other snapshots of the archive are as they were before this step
OthersUnchanged(except) ==
  \A n \in Names \ except :
    /\ store'[n] = store[n]
    /\ HasEntry(meta', n) = HasEntry(meta, n)
    /\ HasEntry(meta, n) => EntryOf(meta', n) = EntryOf(meta, n)

\* C11: a restore whose target is, when restore is called, an incremental
\* snapshot with a base that has no directory, returns failure; the
\* workspace is as it was before the call, and of the archive only the
\* safety backup of this restore has changed.
C11_MissingBaseAborts ==
  [][ ( /\ pc = "backup"
        /\ HasEntry(meta, cur.name)
        /\ EntryOf(meta, cur.name).isIncremental
        /\ EntryOf(meta, cur.name).baseCheckpoint # NoName
        /\ ~store[EntryOf(meta, cur.name).baseCheckpoint].exists )
      => /\ pc' = "idle"
         /\ lastOp'.done
         /\ ~lastOp'.ok
         /\ ws' = ws
         /\ OthersUnchanged({AutoBackupName(now)}) ]_vars

\* C12: restore(name) for a name with no snapshot directory is over in its
\* first step: it returns failure, takes no safety backup, and leaves the
\* workspace, the snapshot directories and the index as they were.
C12_RestoreOfMissing ==
  [][ \A n \in Names :
        ( /\ pc = "idle"
          /\ calls'.restore = calls.restore + 1
          /\ lastOp'.name = n
          /\ ~store[n].exists )
        => /\ pc' = "idle"
           /\ lastOp'.done
           /\ ~lastOp'.ok
           /\ ~lastOp'.backupDone
           /\ ws' = ws
           /\ store' = store
           /\ meta' = meta ]_vars

\* a restore of a name with no directory has failed in an archive that
\* holds other snapshots
C12_Witness ==
  /\ RestoreDone
  /\ ~lastOp.ok
  /\ ~lastOp.backupDone
  /\ ~store[lastOp.name].exists
  /\ ~HasEntry(meta, lastOp.name)
  /\ meta # <<>>
  /\ \A n \in BackupNames : ~store[n].exists

\* C13: a restore of a name that has no entry in the index when restore is
\* called returns failure, whether or not a directory of that name is in the
\* storage directory, and no step of it changes the workspace.
C13_NoEntryNoRestore ==
  (lastOp.op = "restore" /\ ~lastOp.hadEntry)
  => /\ ws = lastOp.wsPre
     /\ RestoreDone => ~lastOp.ok

\* this step is the call deleteCheckpoint(n)
DeleteCalled(n) == calls'.delete = calls.delete + 1 /\ lastOp'.name = n

\* C14: when delete(name) returns success, the directory of name is gone,
\* the index has no entry for name, and every other entry and every other
\* directory is as it was.
C14_DeleteRemovesOne ==
  [][ \A n \in Names :
        (DeleteCalled(n) /\ lastOp'.ok)
        => /\ ~store'[n].exists
           /\ ~HasEntry(meta', n)
           /\ Len(meta') = Len(meta) - (IF HasEntry(meta, n) THEN 1 ELSE 0)
           /\ OthersUnchanged({n}) ]_vars

\* a delete has succeeded and left another snapshot in the archive
C14_Witness ==
  /\ lastOp.op = "delete"
  /\ lastOp.ok
  /\ ~store[lastOp.name].exists
  /\ \E n \in Names : n # lastOp.name /\ store[n].exists /\ HasEntry(meta, n)

\* C15: delete(name) for a name that has neither a directory nor an index
\* entry returns failure and leaves every snapshot directory and the index
\* as they were.
C15_DeleteOfMissing ==
  [][ \A n \in Names :
        (DeleteCalled(n) /\ ~store[n].exists /\ ~HasEntry(meta, n))
        => /\ ~lastOp'.ok
           /\ store' = store
           /\ meta' = meta
           /\ ws' = ws ]_vars

\* a delete of a name that is not in the archive has failed while the
\* archive holds a snapshot
C15_Witness ==
  /\ lastOp.op = "delete"
  /\ ~lastOp.ok
  /\ ~captured[lastOp.name].valid
  /\ ~HasEntry(meta, lastOp.name)
  /\ \E n \in Names : store[n].exists /\ HasEntry(meta, n)

\* C16: delete(name) for a name that has an index entry and no directory
\* removes the entry: after the call the index does not list name.
C16_DeleteWithoutDirectory ==
  [][ \A n \in Names :
        (DeleteCalled(n) /\ HasEntry(meta, n) /\ ~store[n].exists)
        => ~HasEntry(meta', n) ]_vars

\* this step is the call cleanOldCheckpoints(d)
PruneCalled(d) == calls'.prune = calls.prune + 1 /\ lastOp'.days = d

\* the entry of n was written in a second before the cutoff and n is not a
\* safety backup
OldSnapshot(n, d) ==
  /\ HasEntry(meta, n)
  /\ EntryOf(meta, n).timestamp.sec < Cutoff(now, d).time
  /\ ~startsWithAutoBackup(n)

\* C17: prune(d) removes every snapshot with a timestamp older than the
\* cutoff and a name that does not start with auto_backup, directory and
\* entry; it keeps every other snapshot, the safety backups among them; and
\* it returns the number of snapshots that it removed.
C17_PruneByAge ==
  [][ \A d \in Days :
        PruneCalled(d)
        => /\ \A n \in Names :
                OldSnapshot(n, d) => ~HasEntry(meta', n) /\ ~store'[n].exists
           /\ OthersUnchanged({n \in Names : OldSnapshot(n, d)})
           /\ lastOp'.count = Cardinality({n \in Names : OldSnapshot(n, d)})
     ]_vars

\* p is in the list that the detector returned
Returned(p) == InSeq(p, probe.changedFiles)

\* p is in both scans with the same digest and the same size
SameContent(p) ==
  /\ p \in DOMAIN probe.baseFiles
  /\ p \in DOMAIN probe.currentFiles
  /\ probe.currentFiles[p].hash = probe.baseFiles[p].hash
  /\ probe.currentFiles[p].size = probe.baseFiles[p].size

Bytes(c) == IF c = 2 THEN 1 ELSE 0

RECURSIVE BytesOver(_, _)
BytesOver(seq, tree) ==
  IF seq = <<>> THEN 0
  ELSE Weight(Head(seq)) * Bytes(tree[Head(seq)]) + BytesOver(Tail(seq), tree)

\* number of bytes stored under a directory
StoredBytes(tree) == BytesOver(PathOrder, tree)

\* C20: when saveCheckpoint writes an incremental snapshot, its
\* incrementalSize is the number of bytes stored in its own directory, its
\* totalSize is incrementalSize plus the number of bytes in the directory of
\* its base, and incrementalSize <= totalSize.
C20_SizeAccounting ==
  [][ \A n \in Names, f \in BOOLEAN :
        ( /\ SaveCalled(n, f)
          /\ HasEntry(meta', n)
          /\ EntryOf(meta', n).isIncremental )
        => /\ EntryOf(meta', n).incrementalSize = StoredBytes(store'[n].files)
           /\ EntryOf(meta', n).totalSize
                = EntryOf(meta', n).incrementalSize
                  + StoredBytes(store'[EntryOf(meta', n).baseCheckpoint].files)
           /\ EntryOf(meta', n).incrementalSize <= EntryOf(meta', n).totalSize
     ]_vars

\* a create has written an incremental snapshot that stores bytes of its
\* own, on a base that stores bytes too
C20_Witness ==
  /\ lastOp.op = "create"
  /\ HasEntry(meta, lastOp.name)
  /\ EntryOf(meta, lastOp.name).isIncremental
  /\ EntryOf(meta, lastOp.name).incrementalSize > 0
  /\ EntryOf(meta, lastOp.name).totalSize
       > EntryOf(meta, lastOp.name).incrementalSize

\* this step runs saveCheckpoint(n, .., f) and writes an incremental entry
IncrementalWritten(n, f) ==
  /\ SaveCalled(n, f)
  /\ HasEntry(meta', n)
  /\ EntryOf(meta', n).isIncremental

\* C21 as stated: every incremental snapshot that saveCheckpoint writes has
\* incrementalSize > 0, totalSize > 0 and incrementalSize < totalSize,
\* whatever the base holds.
C21_StrictSizes ==
  [][ \A n \in Names, f \in BOOLEAN :
        IncrementalWritten(n, f)
        => /\ EntryOf(meta', n).incrementalSize > 0
           /\ EntryOf(meta', n).totalSize > 0
           /\ EntryOf(meta', n).incrementalSize < EntryOf(meta', n).totalSize
     ]_vars

\* C21, amended: every incremental snapshot that saveCheckpoint writes has
\* 0 <= incrementalSize <= totalSize; incrementalSize is positive exactly
\* when one of the changed files it copied holds a byte, and it is smaller
\* than totalSize exactly when the directory of the base holds a byte.
C21_SizesWhenBytes ==
  [][ \A n \in Names, f \in BOOLEAN :
        IncrementalWritten(n, f)
        => LET e == EntryOf(meta', n)
           IN /\ 0 <= e.incrementalSize
              /\ e.incrementalSize <= e.totalSize
              /\ e.incrementalSize > 0
                   <=> \E i \in 1 .. Len(e.changedFiles) :
                          Bytes(ws[e.changedFiles[i]]) > 0
              /\ e.incrementalSize < e.totalSize
                   <=> \E p \in Paths :
                          Bytes(store'[e.baseCheckpoint].files[p]) > 0
     ]_vars

\* a create has written an incremental snapshot that holds a byte on a base
\* of zero-length files only: incrementalSize = totalSize > 0
C21_Witness ==
  /\ lastOp.op = "create"
  /\ HasEntry(meta, lastOp.name)
  /\ EntryOf(meta, lastOp.name).isIncremental
  /\ EntryOf(meta, lastOp.name).incrementalSize > 0
  /\ EntryOf(meta, lastOp.name).totalSize
       = EntryOf(meta, lastOp.name).incrementalSize
  /\ \E p \in Paths : store[EntryOf(meta, lastOp.name).baseCheckpoint].files[p] = 1

\* C22: every entry of the index is well-formed.  A full entry has
\* isIncremental = false, no baseCheckpoint, no changedFiles and
\* incrementalSize = totalSize; an incremental entry has isIncremental =
\* true, a baseCheckpoint and a changedFiles list that is not empty.
C22_WellFormedEntries ==
  \A i \in 1 .. Len(meta) :
     IF meta[i].isIncremental
     THEN /\ meta[i].baseCheckpoint # NoName
          /\ meta[i].changedFiles # <<>>
     ELSE /\ meta[i].baseCheckpoint = NoName
          /\ meta[i].changedFiles = <<>>
          /\ meta[i].incrementalSize = meta[i].totalSize

\* the index holds a full entry and an incremental entry, both written by
\* saveCheckpoint
C22_Witness ==
  /\ \E i \in 1 .. Len(meta) : meta[i].isIncremental
  /\ \E i \in 1 .. Len(meta) : ~meta[i].isIncremental /\ meta[i].totalSize > 0

\* C23: between operations, the fileCount of every entry of the index is
\* the number of files stored under the directory of that snapshot, also
\* after a create that overwrites a name or fails partway.
C23_FileCountMatchesDirectory ==
  pc = "idle"
    => \A i \in 1 .. Len(meta) :
          meta[i].fileCount = CountFiles(store[meta[i].name].files)

\* C24: between operations, for every incremental snapshot of the index the
\* paths of changedFiles are exactly the files stored in its own directory,
\* also when the copy of a changed file failed during the create.
C24_ChangedFilesAreStored ==
  pc = "idle"
    => \A i \in 1 .. Len(meta) :
          meta[i].isIncremental
            => \A p \in Paths :
                  InSeq(p, meta[i].changedFiles)
                    <=> store[meta[i].name].files[p] # 0

\* C25: overwrite by name.  When the directory of name exists and
\* saveCheckpoint(name) succeeds, the directory holds afterwards exactly
\* the files that this call copied from the workspace, so no file of the
\* previous snapshot survives unless it was copied again, and the index has
\* one entry for name, which describes the new snapshot.
C25_OverwriteByName ==
  [][ \A n \in Names, f \in BOOLEAN :
        ( /\ SaveCalled(n, f)
          /\ store[n].exists
          /\ lastOp'.ok )
        => /\ store'[n].exists
           /\ \A p \in Paths :
                 store'[n].files[p] # 0
                   => /\ store'[n].files[p] = ws[p]
                      /\ ~Excluded(p, CopyExcludePatterns)
                      /\ EntryOf(meta', n).isIncremental
                           => InSeq(p, EntryOf(meta', n).changedFiles)
           /\ Cardinality({i \in 1 .. Len(meta') : meta'[i].name = n}) = 1
           /\ EntryOf(meta', n).timestamp = Timestamp(now)
           /\ EntryOf(meta', n).fileCount = CountFiles(store'[n].files)
           /\ Len(meta') = Len(meta) + (IF HasEntry(meta, n) THEN 0 ELSE 1)
     ]_vars

\* a create has overwritten a name: the entry of the name keeps its place
\* in front of an entry that was written between the two creates
C25_Witness ==
  /\ lastOp.op = "create"
  /\ lastOp.ok
  /\ Len(meta) = 2
  /\ meta[1].name = lastOp.name
  /\ captured[meta[1].name].seq > captured[meta[2].name].seq
  /\ captured[meta[2].name].valid

\* this step is a saveCheckpoint(n) that returned false
SaveFailed(n) ==
  /\ calls'.create = calls.create + 1
  /\ lastOp'.name = n
  /\ lastOp'.done
  /\ ~lastOp'.ok

\* C26: when saveCheckpoint(name) returns false because an error was thrown
\* before the index write, the index document is what it was before the
\* call.
C26_FailedCreateKeepsIndex ==
  [][ \A n \in Names : SaveFailed(n) => meta' = meta ]_vars

\* a create has returned false on an archive whose index was not empty,
\* after it had copied a file into its directory
C26_Witness ==
  /\ lastOp.op = "create"
  /\ lastOp.done
  /\ ~lastOp.ok
  /\ meta # <<>>
  /\ \E p \in Paths : store[lastOp.name].files[p] # 0

\* C27: between operations a name has an entry in the index exactly when
\* its snapshot directory exists, also after a create that fails partway or
\* overwrites, and after a delete.
C27_EntryIffDirectory ==
  pc = "idle" => \A n \in Names : HasEntry(meta, n) <=> store[n].exists

\* this step is a saveCheckpoint(n) that threw after its copy had started,
\* or during which the extension host was stopped
SaveBrokeOff(n) ==
  /\ calls'.create = calls.create + 1
  /\ lastOp'.name = n
  /\ ~lastOp'.ok

\* C28: when a saveCheckpoint(name) is interrupted or fails after its copy
\* has started, the index has no entry for name afterwards, whether the
\* name is new or was used by an earlier snapshot: the partly filled
\* directory is an orphan that no listing shows.
C28_BrokenCreateLeavesNoEntry ==
  [][ \A n \in Names : SaveBrokeOff(n) => ~HasEntry(meta', n) ]_vars

\* C29: no snapshot directory ever holds a file below an entry whose name
\* is in the exclusion set (.checkpoints, .git, node_modules, __pycache__,
\* .vscode), at any depth, after any create: the full-tree copy leaves out
\* what the scanner leaves out.
C29_NoExcludedEntryStored ==
  \A n \in Names, p \in Paths :
     store[n].files[p] # 0 => ~Excluded(p, SpecExclusions)

\* both hosts have returned from saveCheckpoint, and each had read the
\* index before either wrote it
BothReadBeforeEitherWrote ==
  \A c \in Callers : callers[c].pc = "returned" /\ callers[c].early

\* C30: two saveCheckpoint calls for distinct new names, run by two hosts
\* that both read the index before either writes it: both return true, both
\* snapshot directories exist, and the index holds the entry of only one of
\* the two, that of the host that wrote last.
C30_LostIndexUpdate ==
  BothReadBeforeEitherWrote
    => /\ \A c \in Callers : callers[c].ok /\ store[callers[c].name].exists
       /\ callers[1].name # callers[2].name
       /\ \E c \in Callers :
             /\ HasEntry(meta, callers[c].name)
             /\ EntryOf(meta, callers[c].name) = callers[c].entry
             /\ \A d \in Callers \ {c} : ~HasEntry(meta, callers[d].name)

\* the two hosts have returned after such a run on an archive that already
\* held a snapshot, and the directory of the lost entry holds files
C30_Witness ==
  /\ BothReadBeforeEitherWrote
  /\ Len(meta) = 2
  /\ \E c \in Callers :
        /\ ~HasEntry(meta, callers[c].name)
        /\ CountFiles(store[callers[c].name].files) > 0

\* this step is a create(n) that the user calls
CreateCalled(n) == calls'.create = calls.create + 1 /\ lastOp'.name = n

\* this step is a prune that removes the snapshot n
PruneRemoves(n) == calls'.prune = calls.prune + 1 /\ ~store'[n].exists

\* C31: snapshots are immutable.  Once saveCheckpoint(n) has written the
\* directory and the entry of n, no step changes the files of the directory
\* or the entry, except delete(n), a prune that removes n and a new
\* create(n); the steps of a restore, its safety backup among them, and
\* the creates of other names leave them as they are.
C31_SnapshotsImmutable ==
  [][ \A n \in Names :
        ( /\ store[n].exists
          /\ HasEntry(meta, n)
          /\ ~DeleteCalled(n)
          /\ ~PruneRemoves(n)
          /\ ~CreateCalled(n) )
        => /\ store'[n] = store[n]
           /\ HasEntry(meta', n)
           /\ EntryOf(meta', n) = EntryOf(meta, n)
     ]_vars

\* C32: the base that a saveCheckpoint without forceFull records is the
\* full snapshot that was created last among the full entries of the index,
\* also when full snapshots were created within one second and when safety
\* backups are among them; it is never an incremental entry.
C32_BaseIsLatestFull ==
  [][ \A n \in Names :
        IncrementalWritten(n, FALSE)
        => LET b == EntryOf(meta', n).baseCheckpoint
           IN /\ HasEntry(meta, b)
              /\ ~EntryOf(meta, b).isIncremental
              /\ \A i \in 1 .. Len(meta) :
                    (~meta[i].isIncremental /\ meta[i].name # n)
                      => captured[meta[i].name].seq <= captured[b].seq
     ]_vars

\* C33: a create that takes the full-copy branch and runs to its end
\* returns success although the copy of one file (a.txt) may have failed:
\* every other workspace file that the copy does not exclude is in the
\* snapshot, the entry is written, and fileCount is the number of files
\* that were copied.
C33_FullCopySkipsFailedFile ==
  [][ \A n \in Names :
        ( /\ CreateCalled(n)
          /\ lastOp'.done
          /\ ~worthIncremental(lastOp'.k) )
        => /\ lastOp'.ok
           /\ FullEntry(meta', n)
           /\ EntryOf(meta', n).fileCount = CountFiles(store'[n].files)
           /\ \A p \in Paths \ {<<"a.txt">>} :
                 (ws[p] # 0 /\ ~Excluded(p, CopyExcludePatterns))
                   => store'[n].files[p] = ws[p]
     ]_vars

\* C34: when one file cannot be stat'ed or read during a scan, that file
\* alone is missing from what getFileList returns: every other regular file
\* that is not excluded has its entry, with its size and the hash of its
\* content.
C34_ScanSkipsOnlyFailedFile ==
  probe.done
    => \A p \in Paths :
          IF /\ probe.tree[p] # 0
             /\ ~Excluded(p, ScanExcludePatterns)
             /\ p \notin probe.faults.stat \cup probe.faults.read
          THEN /\ p \in DOMAIN probe.files
               /\ probe.files[p].size = statSize(probe.tree[p])
               /\ probe.files[p].hash = calculateFileHash(probe.tree[p])
          ELSE p \notin DOMAIN probe.files

\* C35: the clear step of a restore, of a full snapshot or of the base of
\* an incremental one, removes every workspace file whose top-level entry
\* is not .checkpoints or .git, the files under node_modules among them,
\* and changes nothing under .git or in the storage directory.
C35_ClearKeepsStorageAndGit ==
  [][ (pc = "clear" /\ pc' # "clear")
        => /\ \A p \in Paths :
                IF p[1] \in {".checkpoints", ".git"}
                THEN ws'[p] = ws[p]
                ELSE ws'[p] = 0
           /\ store' = store
           /\ meta' = meta
     ]_vars

\* the clear of the base step of an incremental restore has removed the
\* installed dependency and has left the file under .git
C35_Witness ==
  /\ pc = "copy"
  /\ cur.overlay
  /\ lastOp.wsPre[<<"node_modules", "m.js">>] # 0
  /\ ws[<<"node_modules", "m.js">>] = 0
  /\ ws[<<".git", "HEAD">>] # 0
  /\ \A n \in Names : store[n].files[<<"node_modules", "m.js">>] = 0

\* C36: referential integrity of bases.  Between operations every
\* incremental entry of the index names a base that has an entry which is
\* not incremental and whose directory is on disk.
C36_BaseIsPresentAndFull ==
  pc = "idle"
    => \A i \in 1 .. Len(meta) :
          meta[i].isIncremental
            => /\ HasEntry(meta, meta[i].baseCheckpoint)
               /\ ~EntryOf(meta, meta[i].baseCheckpoint).isIncremental
               /\ store[meta[i].baseCheckpoint].exists

\* C37: backups survive prune.  A restore of an auto_backup snapshot that
\* is called right after a prune, on a backup that the prune left with its
\* directory, returns true and leaves every tracked path of the workspace
\* as it was when the backup was taken.
C37_KeptBackupRestores ==
  ( /\ RestoreDone
    /\ lastOp.afterPrune
    /\ startsWithAutoBackup(lastOp.name)
    /\ lastOp.backupDone
    /\ lastOp.cap.valid )
  => /\ lastOp.ok
     /\ SameTracked(ws, lastOp.cap.tree)

\* the tree that restore(s2) leaves when it is called in workspace w right
\* after the create(s2) of the layered history: the kept paths of w, the
\* files of the base s1 as that history stored them, and over them the
\* changed files of s2
RestoreAfterCreate(w) ==
  LET second == SeedSecond(SeedWorkspace("layered"))
      entry == EntryOf(second.meta, <<"s", 2>>)
      base == second.store[entry.baseCheckpoint].files
      layer == second.store[<<"s", 2>>].files
  IN [p \in Paths |->
        IF InSeq(p, entry.changedFiles) /\ layer[p] # 0 THEN layer[p]
        ELSE IF base[p] # 0 THEN base[p]
        ELSE IF KeptOnClear(p) THEN w[p]
        ELSE 0]

\* C38: stability of an incremental snapshot.  s2 is the incremental
\* snapshot of the layered history and has been neither deleted nor created
\* again since.  Whatever was called in between, creates under the name of
\* its base included, a restore(s2) that returns true leaves the tree that
\* it would have left right after create(s2).
C38_RestoreIsStable ==
  ( /\ RestoreOk
    /\ lastOp.name = <<"s", 2>>
    /\ lastOp.incrPre
    /\ lastOp.cap = [valid |-> TRUE, tree |-> SeedWorkspace("layered"),
                     seq |-> 2] )
  => ws = RestoreAfterCreate(lastOp.wsPre)

\* C39: create, delete and prune change only the archive.  Whatever name
\* the call is given and whatever it returns, the step of a create, a delete
\* or a prune leaves every file of the workspace with its path and content.
C39_ArchiveOnly ==
  [][ ( \/ calls'.create = calls.create + 1
        \/ calls'.delete = calls.delete + 1
        \/ calls'.prune = calls.prune + 1 )
        => ws' = ws ]_vars

====
